---- MODULE Spec2Model ----
(***************************************************************************)
(* State-machine model of the FlockCtrl driver of skybrush-server          *)
(* (flockwave/server/ext/flockctrl/driver.py): the address registry, the   *)
(* reverse source index, the per-UAV pending command map, the command      *)
(* flows (coroutines with their suspension points) and the reassembly of   *)
(* chunked command responses.                                              *)
(***************************************************************************)
EXTENDS Integers, Sequences, FiniteSets, TLC

(***************************************************************************)
(* Bounds of the model.                                                    *)
(***************************************************************************)
\* number of command flows that may be started in one behaviour
MaxCommands == 2
\* largest timestamp (itow, in milliseconds) and largest raw count of a
\* Geiger counter sample
MaxItow == 1
MaxCount == 1
\* deepest nesting of registered(type, cls) scopes
MaxScopes == 2
\* number of Geiger-Muller tubes of a vehicle
MAX_GEIGER_TUBE_COUNT == 2

(***************************************************************************)
(* Value domains.                                                          *)
(***************************************************************************)
\* the absent value of a dictionary lookup: of an address, of a UAV, of a source
None == "None"
NoUav == <<>>
NoSource == <<>>
NoCommand == 0

\* numeric identifiers carried by the packets
UavIndices == {1, 2}
\* communication media of the extension (config.py: connections)
Media == {"wireless"}
Addresses == {"addrA", "addrB"}
Sources == Media \X Addresses
Commands == 1..MaxCommands
\* channel types, their factories and broadcasters (None: no broadcaster)
ChannelIds == {"sio", "tcp", "udp"}
Factories == {"factoryA", "factoryB"}
Broadcasters == {"None", "broadcast"}
\* no descriptor under a channel id
NoDescriptor == <<>>
\* type names and classes of the object type registry
Types == {"uav", "beacon", "dock"}
Classes == {"ClassA", "ClassB"}
\* the locations carried by status packets
Locations == {"location", "elsewhere"}
Tubes == 1..MAX_GEIGER_TUBE_COUNT
Itows == 0..MaxItow
RawCounts == [Tubes -> 0..MaxCount]
\* no stored sample (_last_geiger_counter_packet is None), no value written
NoSample == <<>>
NoValue == <<>>

\* payload bytes: the lead byte and the continuation byte of a two-byte
\* UTF-8 sequence (each of them invalid on its own)
ByteLead == 195
ByteCont == 169
Bytes == {ByteLead, ByteCont}
ReplacementChar == 65533

(***************************************************************************)
(* Pure helpers.                                                           *)
(***************************************************************************)
DigitChars == <<"0", "1", "2", "3", "4", "5", "6", "7", "8", "9">>

\* id_format.format(id) for the default format "{0:02}": two digits, zero padded
FormatId(n) ==
    <<DigitChars[((n \div 10) % 10) + 1], DigitChars[(n % 10) + 1]>>

\* the literal text of an id_format before its "{0:02}" field: of "{0:02}"
\* and of "COLLMOT-{0:02}" (config.py)
DefaultIdFormat == <<>>
IdFormats == {DefaultIdFormat, <<"C", "O", "L", "L", "M", "O", "T", "-">>}

\* make_valid_uav_id(id_format.format(id)): the formatted ids are valid ids
\* and are kept as they are
FormatUavId(format, n) == format \o FormatId(n)

UavIds == {FormatUavId(format, n) : format \in IdFormats, n \in UavIndices}

\* bytes.decode("utf-8", errors="replace") on one- and two-byte sequences
RECURSIVE Decode(_)
Decode(body) ==
    IF body = <<>> THEN <<>>
    ELSE IF body[1] < 128
        THEN <<body[1]>> \o Decode(Tail(body))
    ELSE IF /\ body[1] >= 194
            /\ body[1] <= 223
            /\ Len(body) >= 2
            /\ body[2] >= 128
            /\ body[2] <= 191
        THEN <<(body[1] - 192) * 64 + (body[2] - 128)>> \o Decode(Tail(Tail(body)))
    ELSE <<ReplacementChar>> \o Decode(Tail(body))

\* the result returned to a sender whose command was cancelled: the code
\* points of "Execution cancelled"
ExecutionCancelled ==
    <<69, 120, 101, 99, 117, 116, 105, 111, 110, 32,
      99, 97, 110, 99, 101, 108, 108, 101, 100>>

(***************************************************************************)
(* State.                                                                  *)
(***************************************************************************)
VARIABLES
    index_to_uav_id,                 \* numeric id -> formatted id (NoUav: absent)
    uav_registry,                    \* ids of the UAVs in app.uav_registry
    addresses,                       \* FlockCtrlUAV.addresses, per UAV
    uavs_by_source_address,          \* (medium, address) -> UAV (NoUav: absent)
    allow_multiple_commands_per_uav, \* the driver's preemption flag
    id_format,                       \* the driver's id_format attribute
    pending_commands_by_uav,         \* FutureMap: UAV id -> slot (by its command)
    future,                          \* the future of each command's slot
    pc,                              \* position of each command flow
    target,                          \* the uav argument of each running command flow
    dest,                            \* the address the request packet of each running flow was handed to
    returned,                        \* what the call made in the last step returned or raised, if it ended
    buffers,                         \* ChunkedPacketAssembler: source -> bytes
    position,                        \* FlockCtrlUAV._status.position, per UAV (None: unknown)
    last_geiger_counter_packet,      \* FlockCtrlUAV._last_geiger_counter_packet, per UAV
    mutations,                       \* the channel values the mutator received in the last Geiger update
    uav_inf_due,                     \* ids for which a UAV-INF message was requested and is not sent yet
    entries,                         \* ChannelTypeRegistry._entries: channel id -> descriptor
    signals,                         \* the signals the last call on the channel type registry sent
    type_registry,                   \* object._type_registry: type name -> class (None: absent)
    scopes                           \* the open registered(type, cls) scopes, innermost last

driverVars == <<index_to_uav_id, uav_registry, addresses, uavs_by_source_address>>
commandVars == <<pending_commands_by_uav, future, pc, target, dest, returned>>
sensorVars == <<position, last_geiger_counter_packet, mutations, uav_inf_due>>
registryVars == <<entries, signals, type_registry, scopes>>
vars == <<driverVars, allow_multiple_commands_per_uav, id_format, commandVars, buffers,
          sensorVars, registryVars>>

NoFuture == [state |-> "none", value |-> <<>>]
PendingFuture == [state |-> "pending", value |-> <<>>]
CancelledFuture == [state |-> "cancelled", value |-> <<>>]
DoneFuture(text) == [state |-> "done", value |-> text]

\* the end of a call: of a command flow (its command, and the value it
\* returned or the error it raised), or of handle_inbound_packet when an
\* error leaves it (no command)
NoReturn == [cmd |-> NoCommand, kind |-> "none", value |-> <<>>, error |-> ""]
Returned(c, text) == [cmd |-> c, kind |-> "value", value |-> text, error |-> ""]
Raised(c, error) == [cmd |-> c, kind |-> "error", value |-> <<>>, error |-> error]

\* the mutator has received nothing
NoMutations == [raw_counts |-> NoValue, rates |-> [tube \in Tubes |-> NoValue]]

\* FlockCtrlDriver.__init__: empty maps and no command flow; the preemption
\* flag is a public attribute (True by default) that the owner of the driver
\* sets before the driver is used
Init ==
    /\ index_to_uav_id = [n \in UavIndices |-> NoUav]
    /\ uav_registry = {}
    /\ addresses = [u \in UavIds |-> [m \in Media |-> None]]
    /\ uavs_by_source_address = [s \in Sources |-> NoUav]
    /\ allow_multiple_commands_per_uav \in BOOLEAN
    /\ id_format = DefaultIdFormat
    /\ pending_commands_by_uav = [u \in UavIds |-> NoCommand]
    /\ future = [c \in Commands |-> NoFuture]
    /\ pc = [c \in Commands |-> "idle"]
    /\ target = [c \in Commands |-> NoUav]
    /\ dest = [c \in Commands |-> NoSource]
    /\ returned = NoReturn
    /\ buffers = [s \in Sources |-> <<>>]
    /\ position = [u \in UavIds |-> None]
    /\ last_geiger_counter_packet = [u \in UavIds |-> NoSample]
    /\ mutations = NoMutations
    /\ uav_inf_due = {}
    /\ entries = [channel_id \in ChannelIds |-> NoDescriptor]
    /\ signals = <<>>
    /\ type_registry = [type \in Types |-> None]
    /\ scopes = <<>>

(***************************************************************************)
(* Address registry.                                                       *)
(***************************************************************************)
\* check_or_record_address without the comparison: the address is stored
\* whatever the map holds
check_or_record_address_overwriting(addrs, medium, address) ==
    [raised |-> FALSE, addresses |-> [addrs EXCEPT ![medium] = address]]

\* FlockCtrlUAV.check_or_record_address: the address map of the UAV after
\* the call and whether AddressConflictError was raised
check_or_record_address(addrs, medium, address) ==
    LET current_address == addrs[medium]
    IN  IF current_address = None
            THEN [raised |-> FALSE, addresses |-> [addrs EXCEPT ![medium] = address]]
        ELSE IF current_address # address
            THEN [raised |-> TRUE, addresses |-> addrs]
        ELSE [raised |-> FALSE, addresses |-> addrs]

\* FlockCtrlDriver._check_or_record_uav_address: the reverse index is
\* assigned whenever the UAV's own check did not raise
CheckOrRecordUavAddress(uav, medium, address) ==
    LET checked == check_or_record_address(addresses[uav], medium, address)
    IN  /\ addresses' = [addresses EXCEPT ![uav] = checked.addresses]
        /\ uavs_by_source_address' =
            IF checked.raised
                THEN uavs_by_source_address
                ELSE [uavs_by_source_address EXCEPT ![<<medium, address>>] = uav]

\* the address lookup falling back to a fixed address instead of raising
preferred_address_or_default(addrs) ==
    IF addrs["wireless"] # None
        THEN <<"wireless", addrs["wireless"]>>
        ELSE <<"wireless", "addrA">>

\* FlockCtrlUAV.preferred_address: NoSource stands for the ValueError
preferred_address(addrs) ==
    IF addrs["wireless"] # None THEN <<"wireless", addrs["wireless"]>> ELSE NoSource

\* _get_or_create_uav formatting the numeric id on every call, whatever the
\* cache holds
GetOrCreateUavIdUncached(n) ==
    FormatUavId(id_format, n)

\* FlockCtrlDriver._get_or_create_uav: fills the numeric id cache and the
\* registry; the value is the formatted id of the UAV
GetOrCreateUavId(n) ==
    IF index_to_uav_id[n] = NoUav THEN FormatUavId(id_format, n) ELSE index_to_uav_id[n]

GetOrCreateUav(n) ==
    /\ index_to_uav_id' = [index_to_uav_id EXCEPT ![n] = GetOrCreateUavId(n)]
    /\ uav_registry' = uav_registry \cup {GetOrCreateUavId(n)}

\* what handle_inbound_packet lets escape for a status packet
StatusOutcome(n, source) ==
    IF check_or_record_address(addresses[GetOrCreateUavId(n)], source[1], source[2]).raised
        THEN "AddressConflict"
        ELSE "ok"

\* the status handler updating the status of the UAV and requesting the
\* UAV-INF message before the address is checked
HandleInboundStatusPacketUpdatingFirst(n, source, location) ==
    /\ GetOrCreateUav(n)
    /\ CheckOrRecordUavAddress(GetOrCreateUavId(n), source[1], source[2])
    /\ returned' = IF StatusOutcome(n, source) = "AddressConflict"
                       THEN Raised(NoCommand, "AddressConflict")
                       ELSE NoReturn
    /\ position' = [position EXCEPT ![GetOrCreateUavId(n)] = location]
    /\ uav_inf_due' = uav_inf_due \cup {GetOrCreateUavId(n)}
    /\ UNCHANGED <<allow_multiple_commands_per_uav, id_format, pending_commands_by_uav,
                   future, pc, target, dest, buffers, last_geiger_counter_packet, mutations,
                   registryVars>>

\* FlockCtrlDriver._handle_inbound_status_packet, reached through
\* handle_inbound_packet, for a packet carrying location: an
\* AddressConflictError escapes to the caller before update_status and
\* before the request of the UAV-INF message. update_status stores the
\* position, velocity, heading, algorithm and error of the packet in one
\* call; the position stands for them
HandleInboundStatusPacketAt(n, source, location) ==
    /\ GetOrCreateUav(n)
    /\ CheckOrRecordUavAddress(GetOrCreateUavId(n), source[1], source[2])
    /\ returned' = IF StatusOutcome(n, source) = "AddressConflict"
                       THEN Raised(NoCommand, "AddressConflict")
                       ELSE NoReturn
    /\ position' = IF StatusOutcome(n, source) = "AddressConflict"
                       THEN position
                       ELSE [position EXCEPT ![GetOrCreateUavId(n)] = location]
    /\ uav_inf_due' = IF StatusOutcome(n, source) = "AddressConflict"
                          THEN uav_inf_due
                          ELSE uav_inf_due \cup {GetOrCreateUavId(n)}
    /\ UNCHANGED <<allow_multiple_commands_per_uav, id_format, pending_commands_by_uav,
                   future, pc, target, dest, buffers, last_geiger_counter_packet, mutations,
                   registryVars>>

\* a status packet carrying the location "location"
HandleInboundStatusPacket(n, source) ==
    HandleInboundStatusPacketAt(n, source, "location")

\* FlockCtrlDriver._handle_inbound_algorithm_data_packet for a packet whose
\* algorithm is not recognized (packet.algorithm raises KeyError): the UAV
\* has been looked up or created before the algorithm is looked at
HandleInboundAlgorithmDataPacket(n) ==
    /\ GetOrCreateUav(n)
    /\ returned' = NoReturn
    /\ UNCHANGED <<addresses, uavs_by_source_address, allow_multiple_commands_per_uav,
                   id_format, pending_commands_by_uav, future, pc, target, dest, buffers,
                   sensorVars, registryVars>>

(***************************************************************************)
(* Command future map (flockwave.server.concurrency.FutureMap).            *)
(***************************************************************************)
\* FutureMap.new(id, strict): the slot of command c is acquired for id. A
\* pending slot makes a strict acquisition fail and is cancelled by a
\* lenient one; the new slot then replaces whatever the map held
FutureMapNew(map, futs, id, c, strict) ==
    LET old == map[id]
        busy == old # NoCommand /\ futs[old].state = "pending"
    IN  IF busy /\ strict
            THEN [raised |-> TRUE, map |-> map, futures |-> futs]
        ELSE [raised |-> FALSE,
              map |-> [map EXCEPT ![id] = c],
              futures |-> [d \in Commands |->
                              IF d = c THEN PendingFuture
                              ELSE IF busy /\ d = old THEN CancelledFuture
                              ELSE futs[d]]]

\* leaving the scope of FutureMap.new: the entry is removed if and only if
\* it still is the slot this command created
FutureMapRelease(map, id, c) ==
    IF map[id] = c THEN [map EXCEPT ![id] = NoCommand] ELSE map

\* Future.set_result on a pending future
FutureSetResult(f, text) == DoneFuture(text)

(***************************************************************************)
(* Command flows (FlockCtrlDriver._send_command_to_uav).                   *)
(***************************************************************************)
\* the strict argument without its negation
StrictModeNotNegated == allow_multiple_commands_per_uav

\* strict=not self.allow_multiple_commands_per_uav
StrictMode == ~allow_multiple_commands_per_uav

\* the wait without the handler of FutureCancelled: the cancellation leaves
\* the flow as an error
WaitOutcomePropagating(c, f) ==
    IF f.state = "cancelled" THEN Raised(c, "FutureCancelled") ELSE Returned(c, f.value)

\* what the flow returns once its future is done: the result, or the
\* sentinel when FutureCancelled was caught
WaitOutcome(c, f) ==
    IF f.state = "cancelled" THEN Returned(c, ExecutionCancelled) ELSE Returned(c, f.value)

\* the flow of command c is over: its locals are gone
EndOfFlow(c) ==
    /\ pc' = [pc EXCEPT ![c] = "done"]
    /\ target' = [target EXCEPT ![c] = NoUav]
    /\ dest' = [dest EXCEPT ![c] = NoSource]

\* the slot stored into the map by plain assignment: a pending slot it
\* replaces is not cancelled
EnterCommandSlotByAssignment(c, uav, address) ==
    IF StrictMode /\ pending_commands_by_uav[uav] # NoCommand
                  /\ future[pending_commands_by_uav[uav]].state = "pending"
        THEN /\ EndOfFlow(c)
             /\ returned' = Raised(c, "CommandAlreadyInProgress")
             /\ UNCHANGED <<pending_commands_by_uav, future>>
        ELSE /\ pc' = [pc EXCEPT ![c] = "waiting"]
             /\ target' = [target EXCEPT ![c] = uav]
             /\ dest' = [dest EXCEPT ![c] = address]
             /\ pending_commands_by_uav' = [pending_commands_by_uav EXCEPT ![uav] = c]
             /\ future' = [future EXCEPT ![c] = PendingFuture]
             /\ returned' = NoReturn

\* async with self._pending_commands_by_uav.new(uav.id, strict=...) and the
\* suspension in future.wait(); address is the one the packet was handed to
EnterCommandSlot(c, uav, address) ==
    LET got == FutureMapNew(pending_commands_by_uav, future, uav, c, StrictMode)
    IN  IF got.raised
            THEN /\ EndOfFlow(c)
                 /\ returned' = Raised(c, "CommandAlreadyInProgress")
                 /\ UNCHANGED <<pending_commands_by_uav, future>>
            ELSE /\ pc' = [pc EXCEPT ![c] = "waiting"]
                 /\ target' = [target EXCEPT ![c] = uav]
                 /\ dest' = [dest EXCEPT ![c] = address]
                 /\ pending_commands_by_uav' = got.map
                 /\ future' = got.futures
                 /\ returned' = NoReturn

\* _send_command_to_uav acquiring the slot first and sending inside of it:
\* the slot exists while send_packet is suspended
SendCommandToUavSlotFirst(c, uav, suspends) ==
    LET address == preferred_address(addresses[uav])
        got == FutureMapNew(pending_commands_by_uav, future, uav, c, StrictMode)
    IN  /\ pc[c] = "idle"
        /\ \A d \in Commands : d < c => pc[d] # "idle"
        /\ uav \in uav_registry
        /\ IF address = NoSource
            THEN /\ EndOfFlow(c)
                 /\ returned' = Raised(c, "NoKnownAddress")
                 /\ UNCHANGED <<pending_commands_by_uav, future>>
            ELSE IF suspends /\ ~got.raised
                THEN /\ pc' = [pc EXCEPT ![c] = "sending"]
                     /\ target' = [target EXCEPT ![c] = uav]
                     /\ dest' = [dest EXCEPT ![c] = address]
                     /\ returned' = NoReturn
                     /\ pending_commands_by_uav' = got.map
                     /\ future' = got.futures
                ELSE EnterCommandSlot(c, uav, address)
        /\ UNCHANGED <<driverVars, allow_multiple_commands_per_uav, id_format, sensorVars, registryVars, buffers>>

\* _send_command_to_uav up to its first suspension: the address is looked
\* up and the request packet is handed to send_packet, which either
\* suspends or returns at once
SendCommandToUav(c, uav, suspends) ==
    LET address == preferred_address(addresses[uav])
    IN  /\ pc[c] = "idle"
        /\ \A d \in Commands : d < c => pc[d] # "idle"
        /\ uav \in uav_registry
        /\ IF address = NoSource
            THEN /\ EndOfFlow(c)
                 /\ returned' = Raised(c, "NoKnownAddress")
                 /\ UNCHANGED <<pending_commands_by_uav, future>>
            ELSE IF suspends
                THEN /\ pc' = [pc EXCEPT ![c] = "sending"]
                     /\ target' = [target EXCEPT ![c] = uav]
                     /\ dest' = [dest EXCEPT ![c] = address]
                     /\ returned' = NoReturn
                     /\ UNCHANGED <<pending_commands_by_uav, future>>
                ELSE EnterCommandSlot(c, uav, address)
        /\ UNCHANGED <<driverVars, allow_multiple_commands_per_uav, id_format, sensorVars, registryVars, buffers>>

\* send_packet returned: the flow goes on to acquire its slot
SendPacketDone(c) ==
    /\ pc[c] = "sending"
    /\ EnterCommandSlot(c, target[c], dest[c])
    /\ UNCHANGED <<driverVars, allow_multiple_commands_per_uav, id_format, sensorVars, registryVars, buffers>>

\* send_packet raised: the error leaves _send_command_to_uav
SendPacketFailed(c) ==
    /\ pc[c] = "sending"
    /\ EndOfFlow(c)
    /\ returned' = Raised(c, "SendFailed")
    /\ UNCHANGED <<driverVars, allow_multiple_commands_per_uav, id_format, sensorVars, registryVars,
                   pending_commands_by_uav, future, buffers>>

\* the flow returns and deletes the map entry of its vehicle without
\* looking at which slot the entry holds
ResumeCommandDeletingEntry(c) ==
    /\ pc[c] = "waiting"
    /\ future[c].state \in {"done", "cancelled"}
    /\ EndOfFlow(c)
    /\ returned' = WaitOutcome(c, future[c])
    /\ pending_commands_by_uav' = [pending_commands_by_uav EXCEPT ![target[c]] = NoCommand]
    /\ future' = [future EXCEPT ![c] = NoFuture]
    /\ UNCHANGED <<driverVars, allow_multiple_commands_per_uav, id_format, sensorVars, registryVars, buffers>>

\* the waiter is woken: the flow returns and leaves the scope of its slot,
\* after which nothing refers to its future any more
ResumeCommand(c) ==
    /\ pc[c] = "waiting"
    /\ future[c].state \in {"done", "cancelled"}
    /\ EndOfFlow(c)
    /\ returned' = WaitOutcome(c, future[c])
    /\ pending_commands_by_uav' = FutureMapRelease(pending_commands_by_uav, target[c], c)
    /\ future' = [future EXCEPT ![c] = NoFuture]
    /\ UNCHANGED <<driverVars, allow_multiple_commands_per_uav, id_format, sensorVars, registryVars, buffers>>

\* the caller gives up on the flow (its execution timeout): the task is
\* cancelled at its suspension point and leaves the scope of its slot
CancelCommand(c) ==
    /\ \/ pc[c] = "sending"
       \/ pc[c] = "waiting" /\ future[c].state = "pending"
    /\ EndOfFlow(c)
    /\ returned' = Raised(c, "Cancelled")
    /\ pending_commands_by_uav' =
        IF pc[c] = "waiting"
            THEN FutureMapRelease(pending_commands_by_uav, target[c], c)
            ELSE pending_commands_by_uav
    /\ future' = [future EXCEPT ![c] = NoFuture]
    /\ UNCHANGED <<driverVars, allow_multiple_commands_per_uav, id_format, sensorVars, registryVars, buffers>>

(***************************************************************************)
(* Reassembly of chunked command responses.                                *)
(***************************************************************************)
Chunks == {<<b>> : b \in Bytes}

\* decompression of a compressed response body, abstracted as a fixed
\* expansion code over the payload bytes: a lead byte stands for the lead
\* byte followed by its continuation byte
InflateByte(b) == IF b = ByteLead THEN <<ByteLead, ByteCont>> ELSE <<b>>

RECURSIVE Decompress(_)
Decompress(body) ==
    IF body = <<>> THEN <<>> ELSE InflateByte(Head(body)) \o Decompress(Tail(body))

\* compression on the vehicle: the continuation bytes are left out
Deflate(body) == SelectSeq(body, LAMBDA b : b # ByteCont)

\* ChunkedPacketAssembler.add_packet: the chunk is appended to the buffer of
\* its source; the final chunk completes the body and discards the buffer
AddPacket(buffer, chunk, final, compressed) ==
    LET data == buffer \o chunk
    IN  IF final
            THEN [complete |-> TRUE, buffer |-> <<>>,
                  body |-> IF compressed THEN Decompress(data) ELSE data]
            ELSE [complete |-> FALSE, buffer |-> data, body |-> <<>>]

\* what _on_chunked_packet_assembled logs or raises for a body from source
AssembledOutcome(source) ==
    LET uav == uavs_by_source_address[source]
    IN  IF uav = NoUav THEN "no_uav"
        ELSE IF pending_commands_by_uav[uav] = NoCommand THEN "stale"
        ELSE IF future[pending_commands_by_uav[uav]].state = "pending" THEN "delivered"
        ELSE "finished"

\* the response handed to whichever command is pending when the UAV of the
\* source has no slot of its own
OnChunkedPacketAssembledByAnyone(body, source) ==
    LET uav == uavs_by_source_address[source]
        decoded_body == Decode(body)
    IN  IF uav = NoUav
            THEN UNCHANGED future
        ELSE IF pending_commands_by_uav[uav] = NoCommand
            THEN future' = [d \in Commands |->
                               IF future[d].state = "pending"
                                   THEN FutureSetResult(future[d], decoded_body)
                                   ELSE future[d]]
        ELSE future' = [future EXCEPT ![pending_commands_by_uav[uav]] =
                           FutureSetResult(future[pending_commands_by_uav[uav]], decoded_body)]

\* the response of a source without a UAV handed to whichever command is
\* pending
OnChunkedPacketAssembledUnindexed(body, source) ==
    LET uav == uavs_by_source_address[source]
        decoded_body == Decode(body)
    IN  IF uav = NoUav
            THEN future' = [d \in Commands |->
                               IF future[d].state = "pending"
                                   THEN FutureSetResult(future[d], decoded_body)
                                   ELSE future[d]]
        ELSE IF pending_commands_by_uav[uav] = NoCommand
            THEN UNCHANGED future
        ELSE future' = [future EXCEPT ![pending_commands_by_uav[uav]] =
                           FutureSetResult(future[pending_commands_by_uav[uav]], decoded_body)]

\* FlockCtrlDriver._on_chunked_packet_assembled. set_result on a future that
\* is already done either raises or replaces the result
OnChunkedPacketAssembled(body, source) ==
    LET uav == uavs_by_source_address[source]
        decoded_body == Decode(body)
        c == pending_commands_by_uav[uav]
    IN  IF AssembledOutcome(source) \in {"no_uav", "stale"}
            THEN UNCHANGED future
        ELSE IF AssembledOutcome(source) = "delivered"
            THEN future' = [future EXCEPT ![c] = FutureSetResult(future[c], decoded_body)]
        ELSE \/ future' = [future EXCEPT ![c] = FutureSetResult(future[c], decoded_body)]
             \/ UNCHANGED future

\* the response body the vehicles send, in chunks of one byte: a two-byte
\* character split over two chunks
ResponseBodies == {<<ByteLead, ByteCont>>}

\* the bytes a vehicle puts into the packets of a response: the body, or
\* its compressed form for the compressed packet class
CompressedResponseBodies == {Deflate(body) : body \in ResponseBodies}

WireBytes(compressed) ==
    IF compressed THEN CompressedResponseBodies ELSE ResponseBodies

\* the chunk continues (final: completes) a response a vehicle sends
IsResponseChunk(buffer, chunk, final, compressed) ==
    \E wire \in WireBytes(compressed) :
        /\ Len(wire) > Len(buffer)
        /\ SubSeq(wire, 1, Len(buffer) + 1) = buffer \o chunk
        /\ final <=> Len(wire) = Len(buffer) + 1

\* the handler with one assembly at a time: the completion of a body
\* discards the partial buffer of every source
HandleInboundCommandResponsePacketOneAssembly(source, chunk, final, compressed) ==
    LET added == AddPacket(buffers[source], chunk, final, compressed)
    IN  /\ IsResponseChunk(buffers[source], chunk, final, compressed)
        /\ buffers' = [t \in Sources |->
                           IF t = source THEN added.buffer
                           ELSE IF added.complete THEN <<>>
                           ELSE buffers[t]]
        /\ IF added.complete
            THEN OnChunkedPacketAssembled(added.body, source)
            ELSE UNCHANGED future
        /\ returned' = NoReturn
        /\ UNCHANGED <<driverVars, allow_multiple_commands_per_uav, id_format, sensorVars, registryVars,
                       pending_commands_by_uav, pc, target, dest>>

\* FlockCtrlDriver._handle_inbound_command_response_packet, for both the
\* plain and the compressed response packet classes
HandleInboundCommandResponsePacket(source, chunk, final, compressed) ==
    LET added == AddPacket(buffers[source], chunk, final, compressed)
    IN  /\ IsResponseChunk(buffers[source], chunk, final, compressed)
        /\ buffers' = [buffers EXCEPT ![source] = added.buffer]
        /\ IF added.complete
            THEN OnChunkedPacketAssembled(added.body, source)
            ELSE UNCHANGED future
        /\ returned' = NoReturn
        /\ UNCHANGED <<driverVars, allow_multiple_commands_per_uav, id_format, sensorVars, registryVars,
                       pending_commands_by_uav, pc, target, dest>>

\* packet classes that reach no handler with an effect: the two classes the
\* handler table maps to nop, and a class the table does not hold
OtherPacketClasses ==
    {"FlockCtrlPrearmStatusPacket", "FlockCtrlMissionInfoPacket", "UnknownPacket"}

\* the handler table of _configure_packet_handlers, for those classes
PacketHandlers(packet_class) ==
    IF packet_class \in {"FlockCtrlPrearmStatusPacket", "FlockCtrlMissionInfoPacket"}
        THEN "nop"
        ELSE None

\* handle_inbound_packet calling whatever the table lookup returned
HandleInboundOtherPacketUnchecked(packet_class) ==
    /\ packet_class \in OtherPacketClasses
    /\ returned' = IF PacketHandlers(packet_class) = None
                       THEN Raised(NoCommand, "TypeError")
                       ELSE NoReturn
    /\ UNCHANGED <<driverVars, allow_multiple_commands_per_uav, id_format, sensorVars, registryVars,
                   pending_commands_by_uav, future, pc, target, dest, buffers>>

\* FlockCtrlDriver.handle_inbound_packet for those classes: a class without
\* a handler is logged with a warning, nop does nothing
HandleInboundOtherPacket(packet_class) ==
    /\ packet_class \in OtherPacketClasses
    /\ returned' = NoReturn
    /\ UNCHANGED <<driverVars, allow_multiple_commands_per_uav, id_format, sensorVars, registryVars,
                   pending_commands_by_uav, future, pc, target, dest, buffers>>

Next ==
    \/ \E n \in UavIndices, s \in Sources : HandleInboundStatusPacket(n, s)
    \/ \E n \in UavIndices : HandleInboundAlgorithmDataPacket(n)
    \/ \E packet_class \in OtherPacketClasses : HandleInboundOtherPacket(packet_class)
    \/ \E c \in Commands, u \in UavIds, suspends \in BOOLEAN : SendCommandToUav(c, u, suspends)
    \/ \E c \in Commands : SendPacketDone(c)
    \/ \E c \in Commands : SendPacketFailed(c)
    \/ \E c \in Commands : ResumeCommand(c)
    \/ \E c \in Commands : CancelCommand(c)
    \/ \E s \in Sources, chunk \in Chunks, final \in BOOLEAN, compressed \in BOOLEAN :
          HandleInboundCommandResponsePacket(s, chunk, final, compressed)

Spec == Init /\ [][Next]_vars

(***************************************************************************)
(* A session in which the owner of the driver reassigns id_format and the  *)
(* registry drops vehicles between inbound packets.                        *)
(***************************************************************************)
\* assignment to the public attribute id_format of the driver
SetIdFormat(format) ==
    /\ id_format' = format
    /\ UNCHANGED <<driverVars, allow_multiple_commands_per_uav, commandVars, buffers,
                   sensorVars, registryVars>>

\* app.uav_registry drops a vehicle: the FlockCtrlUAV that a later packet
\* creates under the same id starts with an empty address map, no position
\* and no Geiger counter sample
RemoveUav(uav) ==
    /\ uav \in uav_registry
    /\ uav_registry' = uav_registry \ {uav}
    /\ addresses' = [addresses EXCEPT ![uav] = [m \in Media |-> None]]
    /\ position' = [position EXCEPT ![uav] = None]
    /\ last_geiger_counter_packet' = [last_geiger_counter_packet EXCEPT ![uav] = NoSample]
    /\ UNCHANGED <<index_to_uav_id, uavs_by_source_address, allow_multiple_commands_per_uav,
                   id_format, commandVars, buffers, mutations, uav_inf_due, registryVars>>

SessionNext ==
    \/ \E n \in UavIndices, s \in Sources : HandleInboundStatusPacket(n, s)
    \/ \E n \in UavIndices : HandleInboundAlgorithmDataPacket(n)
    \/ \E format \in IdFormats : SetIdFormat(format)
    \/ \E uav \in UavIds : RemoveUav(uav)

SessionSpec == Init /\ [][SessionNext]_vars

(***************************************************************************)
(* Telemetry: status packets with different locations, and the server      *)
(* sending the UAV-INF messages that were requested.                       *)
(***************************************************************************)
\* the server sends the UAV-INF messages that are due
SendUavInfMessages ==
    /\ uav_inf_due # {}
    /\ uav_inf_due' = {}
    /\ UNCHANGED <<driverVars, allow_multiple_commands_per_uav, id_format, commandVars,
                   buffers, position, last_geiger_counter_packet, mutations, registryVars>>

TelemetryNext ==
    \/ \E n \in UavIndices, s \in Sources, location \in Locations :
          HandleInboundStatusPacketAt(n, s, location)
    \/ SendUavInfMessages

TelemetrySpec == Init /\ [][TelemetryNext]_vars

(***************************************************************************)
(* Channel type registry (flockwave.server.registries.channels).           *)
(***************************************************************************)
ChannelTypeDescriptor(channel_id, factory, broadcaster) ==
    <<channel_id, factory, broadcaster>>

\* RegistryBase.__contains__: the id has an entry
Contains(channel_id) == entries[channel_id] # NoDescriptor

num_entries == Cardinality({channel_id \in ChannelIds : Contains(channel_id)})

\* ChannelTypeRegistry.add: returns at once when the id is taken
Add(channel_id, factory, broadcaster) ==
    /\ IF Contains(channel_id)
        THEN /\ UNCHANGED entries
             /\ signals' = <<>>
        ELSE /\ entries' = [entries EXCEPT ![channel_id] =
                                ChannelTypeDescriptor(channel_id, factory, broadcaster)]
             /\ signals' = <<"added", "count_changed">>
    /\ returned' = NoReturn
    /\ UNCHANGED <<driverVars, allow_multiple_commands_per_uav, id_format,
                   pending_commands_by_uav, future, pc, target, dest, buffers, sensorVars,
                   type_registry, scopes>>

\* remove sending count_changed whether or not the id had an entry
RemoveNotifyingAlways(channel_id) ==
    /\ entries' = [entries EXCEPT ![channel_id] = NoDescriptor]
    /\ signals' = IF Contains(channel_id)
                      THEN <<"count_changed", "removed">>
                      ELSE <<"count_changed">>
    /\ returned' = NoReturn
    /\ UNCHANGED <<driverVars, allow_multiple_commands_per_uav, id_format,
                   pending_commands_by_uav, future, pc, target, dest, buffers, sensorVars,
                   type_registry, scopes>>

\* ChannelTypeRegistry.remove: the KeyError of pop ends the call
Remove(channel_id) ==
    /\ IF Contains(channel_id)
        THEN /\ entries' = [entries EXCEPT ![channel_id] = NoDescriptor]
             /\ signals' = <<"count_changed", "removed">>
        ELSE /\ UNCHANGED entries
             /\ signals' = <<>>
    /\ returned' = NoReturn
    /\ UNCHANGED <<driverVars, allow_multiple_commands_per_uav, id_format,
                   pending_commands_by_uav, future, pc, target, dest, buffers, sensorVars,
                   type_registry, scopes>>

RegistryNext ==
    \/ \E channel_id \in ChannelIds, factory \in Factories, broadcaster \in Broadcasters :
          Add(channel_id, factory, broadcaster)
    \/ \E channel_id \in ChannelIds : Remove(channel_id)

RegistrySpec == Init /\ [][RegistryNext]_vars

(***************************************************************************)
(* Object type registry (flockwave.server.model.object). The body of a     *)
(* registered(type, cls) scope opens and closes further scopes and leaves  *)
(* the registry alone otherwise; register and unregister are called        *)
(* outside of the scopes.                                                  *)
(***************************************************************************)
\* ModelObject.resolve_type: None for a type that is not registered
resolve_type(type) == type_registry[type]

\* register(type, cls) with a class given
Register(type, cls) ==
    IF type_registry[type] # None
        THEN [raised |-> TRUE, registry |-> type_registry]
        ELSE [raised |-> FALSE, registry |-> [type_registry EXCEPT ![type] = cls]]

\* unregister(type)
Unregister(type) ==
    IF type_registry[type] = None
        THEN [raised |-> TRUE, registry |-> type_registry]
        ELSE [raised |-> FALSE, registry |-> [type_registry EXCEPT ![type] = None]]

\* what a call of register or unregister hands to its caller
TypeOutcome(result) ==
    IF result.raised THEN Raised(NoCommand, "ValueError") ELSE NoReturn

\* a call of register outside of the scopes
CallRegister(type, cls) ==
    /\ scopes = <<>>
    /\ type_registry' = Register(type, cls).registry
    /\ returned' = TypeOutcome(Register(type, cls))
    /\ UNCHANGED <<driverVars, allow_multiple_commands_per_uav, id_format,
                   pending_commands_by_uav, future, pc, target, dest, buffers, sensorVars,
                   entries, signals, scopes>>

\* a call of unregister outside of the scopes
CallUnregister(type) ==
    /\ scopes = <<>>
    /\ type_registry' = Unregister(type).registry
    /\ returned' = TypeOutcome(Unregister(type))
    /\ UNCHANGED <<driverVars, allow_multiple_commands_per_uav, id_format,
                   pending_commands_by_uav, future, pc, target, dest, buffers, sensorVars,
                   entries, signals, scopes>>

\* registered(type, cls) up to its yield: the ValueError of register leaves
\* the context manager before the try statement; an open scope keeps the
\* registry it was entered with
EnterRegistered(type, cls) ==
    /\ Len(scopes) < MaxScopes
    /\ type_registry' = Register(type, cls).registry
    /\ returned' = TypeOutcome(Register(type, cls))
    /\ scopes' = IF Register(type, cls).raised
                     THEN scopes
                     ELSE Append(scopes, [type |-> type, cls |-> cls, before |-> type_registry])
    /\ UNCHANGED <<driverVars, allow_multiple_commands_per_uav, id_format,
                   pending_commands_by_uav, future, pc, target, dest, buffers, sensorVars,
                   entries, signals>>

\* registered(type, cls) without the try/finally: an exception of the body
\* leaves the scope without unregister
ExitRegisteredWithoutFinally(by_exception) ==
    /\ scopes # <<>>
    /\ LET scope == scopes[Len(scopes)]
       IN  /\ type_registry' = IF by_exception
                                   THEN type_registry
                                   ELSE Unregister(scope.type).registry
           /\ returned' = IF by_exception
                              THEN Raised(NoCommand, "BodyError")
                              ELSE TypeOutcome(Unregister(scope.type))
    /\ scopes' = SubSeq(scopes, 1, Len(scopes) - 1)
    /\ UNCHANGED <<driverVars, allow_multiple_commands_per_uav, id_format,
                   pending_commands_by_uav, future, pc, target, dest, buffers, sensorVars,
                   entries, signals>>

\* registered(type, cls) from its yield on: the body of the innermost scope
\* ends, normally or by an exception, and the finally clause unregisters
\* the type; a ValueError of unregister replaces the exception of the body
ExitRegistered(by_exception) ==
    /\ scopes # <<>>
    /\ LET scope == scopes[Len(scopes)]
       IN  /\ type_registry' = Unregister(scope.type).registry
           /\ returned' = IF Unregister(scope.type).raised
                              THEN Raised(NoCommand, "ValueError")
                              ELSE IF by_exception
                                  THEN Raised(NoCommand, "BodyError")
                                  ELSE NoReturn
    /\ scopes' = SubSeq(scopes, 1, Len(scopes) - 1)
    /\ UNCHANGED <<driverVars, allow_multiple_commands_per_uav, id_format,
                   pending_commands_by_uav, future, pc, target, dest, buffers, sensorVars,
                   entries, signals>>

TypeNext ==
    \/ \E type \in Types, cls \in Classes : CallRegister(type, cls)
    \/ \E type \in Types : CallUnregister(type)
    \/ \E type \in Types, cls \in Classes : EnterRegistered(type, cls)
    \/ \E by_exception \in BOOLEAN : ExitRegistered(by_exception)

TypeSpec == Init /\ [][TypeNext]_vars

(***************************************************************************)
(* Geiger counter samples (FlockCtrlUAV.update_geiger_counter).            *)
(***************************************************************************)
\* (value - last_value) / dt with dt = (itow - last_itow) / 1000, kept as
\* the exact fraction <<numerator, denominator>> in counts per second
Rate(counts, millis) == <<counts * 1000, millis>>

\* the values update_geiger_counter hands to the mutator for the rate
\* channels: NoValue where it hands over nothing
GeigerRates(last, itow, raw_counts) ==
    [tube \in Tubes |->
        IF last = NoSample THEN NoValue
        ELSE IF itow - last[1] > 0 /\ raw_counts[tube] > last[2][tube]
            THEN Rate(raw_counts[tube] - last[2][tube], itow - last[1])
            ELSE NoValue]

\* update_geiger_counter keeping the stored sample when the timestamp of the
\* new one is not later
UpdateGeigerCounterKeepingLatest(uav, itow, raw_counts) ==
    IF position[uav] = None
        THEN /\ mutations' = NoMutations
             /\ UNCHANGED last_geiger_counter_packet
        ELSE /\ mutations' = [raw_counts |-> raw_counts,
                               rates |-> GeigerRates(last_geiger_counter_packet[uav],
                                                     itow, raw_counts)]
             /\ last_geiger_counter_packet' =
                    IF /\ last_geiger_counter_packet[uav] # NoSample
                       /\ itow <= last_geiger_counter_packet[uav][1]
                        THEN last_geiger_counter_packet
                        ELSE [last_geiger_counter_packet EXCEPT ![uav] = <<itow, raw_counts>>]

\* FlockCtrlUAV.update_geiger_counter: nothing is written or stored while
\* the position of the UAV is unknown
UpdateGeigerCounter(uav, itow, raw_counts) ==
    IF position[uav] = None
        THEN /\ mutations' = NoMutations
             /\ UNCHANGED last_geiger_counter_packet
        ELSE /\ mutations' = [raw_counts |-> raw_counts,
                               rates |-> GeigerRates(last_geiger_counter_packet[uav],
                                                     itow, raw_counts)]
             /\ last_geiger_counter_packet' =
                    [last_geiger_counter_packet EXCEPT ![uav] = <<itow, raw_counts>>]

\* FlockCtrlDriver._handle_inbound_algorithm_data_packet for a packet of the
\* Geiger counter algorithm, which passes its sample to update_geiger_counter
HandleInboundGeigerDataPacket(n, itow, raw_counts) ==
    /\ GetOrCreateUav(n)
    /\ UpdateGeigerCounter(GetOrCreateUavId(n), itow, raw_counts)
    /\ returned' = NoReturn
    /\ UNCHANGED <<addresses, uavs_by_source_address, allow_multiple_commands_per_uav,
                   id_format, pending_commands_by_uav, future, pc, target, dest, buffers,
                   position, uav_inf_due, registryVars>>

\* the status packets of this specification arrive from one source
GeigerNext ==
    \/ \E n \in UavIndices : HandleInboundStatusPacket(n, <<"wireless", "addrA">>)
    \/ \E n \in UavIndices, itow \in Itows, raw_counts \in RawCounts :
          HandleInboundGeigerDataPacket(n, itow, raw_counts)

GeigerSpec == Init /\ [][GeigerNext]_vars

(***************************************************************************)
(* Properties.                                                             *)
(***************************************************************************)
\* a pending slot for the UAV is in the map
HasPendingCommand(uav) ==
    /\ pending_commands_by_uav[uav] # NoCommand
    /\ future[pending_commands_by_uav[uav]].state = "pending"

\* C1: the address of a (vehicle, medium) pair is write-once. A status
\* packet for a pair with no address records the address it carries; once an
\* address is recorded no step changes it; and a status packet carrying a
\* different address is rejected with AddressConflict (exactly then) and
\* leaves every address map as it was.
C1_AddressWriteOnce ==
    [][/\ \A u \in UavIds, m \in Media :
            addresses[u][m] # None => addresses'[u][m] = addresses[u][m]
       /\ \A n \in UavIndices, s \in Sources :
            (pc' = pc /\ buffers' = buffers /\ HandleInboundStatusPacket(n, s)) =>
                LET u == GetOrCreateUavId(n)
                    old == addresses[u][s[1]]
                IN  /\ old = None => addresses'[u][s[1]] = s[2]
                    /\ returned'.error = "AddressConflict" <=> old \notin {None, s[2]}
                    /\ returned'.error = "AddressConflict" => addresses' = addresses
      ]_vars

\* both vehicles have recorded an address, each its own: every further
\* status packet of one from the source of the other is a conflict
C1_Witness ==
    /\ addresses[FormatId(1)]["wireless"] = "addrA"
    /\ addresses[FormatId(2)]["wireless"] = "addrB"

\* C2: the reverse index maps every recorded (medium, address) of every
\* vehicle back to that vehicle.
C2_ReverseIndexConsistent ==
    \A u \in UavIds, m \in Media :
        addresses[u][m] # None => uavs_by_source_address[<<m, addresses[u][m]>>] = u

\* command c is the pending command of some UAV
HasPendingCommandOf(c) ==
    \E u \in UavIds : pending_commands_by_uav[u] = c

\* the step in which command c, sent for uav, tries to acquire its slot:
\* send_packet returned at once, or returned after a suspension
AcquiresSlot(c, uav) ==
    \/ /\ preferred_address(addresses[uav]) # NoSource
       /\ SendCommandToUav(c, uav, FALSE)
    \/ /\ target[c] = uav
       /\ SendPacketDone(c)

\* the step in which a response is completely reassembled from source
Reassembled(source, chunk, compressed) ==
    /\ IsResponseChunk(buffers[source], chunk, TRUE, compressed)
    /\ HandleInboundCommandResponsePacket(source, chunk, TRUE, compressed)

\* the text the waiter gets for that response
ResponseText(source, chunk, compressed) ==
    Decode(IF compressed
               THEN Decompress(buffers[source] \o chunk)
               ELSE buffers[source] \o chunk)

\* C3: for each vehicle at most one command flow has a waiter that a
\* response can still fulfil, and the slot of that flow is the one the
\* command map holds for the vehicle.
C3_AtMostOnePendingPerUav ==
    /\ \A u \in UavIds :
        Cardinality({c \in Commands : target[c] = u /\ future[c].state = "pending"}) <= 1
    /\ \A c \in Commands :
        future[c].state = "pending" => pending_commands_by_uav[target[c]] = c

\* two flows wait for the same vehicle: the older one cancelled, the newer
\* one pending
C3_Witness ==
    \E a \in Commands, b \in Commands :
        /\ target[a] # NoUav
        /\ target[a] = target[b]
        /\ pc[a] = "waiting" /\ future[a].state = "cancelled"
        /\ pc[b] = "waiting" /\ future[b].state = "pending"

C5_RejectedCommandNeverSent ==
    [][\A c \in Commands :
            (~allow_multiple_commands_per_uav /\ returned' = Raised(c, "CommandAlreadyInProgress")) =>
                dest[c] = NoSource
      ]_vars

C7_ResponseAfterHandoverResolves ==
    [][\A c \in Commands, s \in Sources, chunk \in Chunks :
            (/\ pc[c] \in {"sending", "waiting"}
             /\ future[c].state # "done"
             /\ dest[c] = s
             /\ preferred_address(addresses[target[c]]) = s
             /\ uavs_by_source_address[s] = target[c]
             /\ \A d \in Commands \ {c} : pc[d] = "idle"
             /\ Reassembled(s, chunk, FALSE)) =>
                future'[c] = DoneFuture(Decode(buffers[s] \o chunk))
      ]_vars

\* C8: while command a waits on a slot that command b superseded for the
\* same vehicle, a response reassembled from the address the request of a
\* was handed to does not resolve the future of b.
C8_SupersededResponseDropped ==
    [][\A a \in Commands, b \in Commands, s \in Sources,
          chunk \in Chunks, compressed \in BOOLEAN :
            (/\ a # b
             /\ pc[a] = "waiting"
             /\ future[a].state = "cancelled"
             /\ dest[a] = s
             /\ target[b] = target[a]
             /\ pending_commands_by_uav[target[a]] = b
             /\ Reassembled(s, chunk, compressed)) =>
                future'[b] = future[b]
      ]_vars

\* C9: a response completely reassembled from a source that the driver
\* resolves to a vehicle without a slot in the command map is dropped with
\* a warning: no error, no new slot, every future and every command flow
\* as before.
C9_StaleResponseIsNoOp ==
    [][\A s \in Sources, chunk \in Chunks, compressed \in BOOLEAN :
            (/\ uavs_by_source_address[s] # NoUav
             /\ pending_commands_by_uav[uavs_by_source_address[s]] = NoCommand
             /\ Reassembled(s, chunk, compressed)) =>
                /\ AssembledOutcome(s) = "stale"
                /\ pending_commands_by_uav' = pending_commands_by_uav
                /\ future' = future
                /\ pc' = pc
                /\ returned' = NoReturn
      ]_vars

\* a source resolves to a vehicle without a slot while a command is pending
\* for another vehicle
C9_Witness ==
    \E s \in Sources, v \in UavIds :
        /\ uavs_by_source_address[s] # NoUav
        /\ uavs_by_source_address[s] # v
        /\ pending_commands_by_uav[uavs_by_source_address[s]] = NoCommand
        /\ HasPendingCommand(v)
        /\ \E t \in Sources : uavs_by_source_address[t] = v /\ buffers[t] # <<>>

\* C10: the command map never holds a slot whose future is fulfilled or
\* cancelled.
C10_NoFinishedSlotInMap ==
    \A u \in UavIds :
        pending_commands_by_uav[u] # NoCommand =>
            future[pending_commands_by_uav[u]].state = "pending"

\* C11: a command flow that leaves the scope of its slot (it returns, or
\* it is cancelled while it waits) removes the map entry of its vehicle if
\* and only if the entry is the slot of this flow, and changes no other
\* entry; a preempted flow leaves the slot of its successor in the map.
C11_ReleaseOnlyOwnSlot ==
    [][\A c \in Commands :
            (/\ pc[c] = "waiting"
             /\ (ResumeCommand(c) \/ CancelCommand(c))) =>
                \A u \in UavIds :
                    pending_commands_by_uav'[u] =
                        IF u = target[c] /\ pending_commands_by_uav[u] = c
                            THEN NoCommand
                            ELSE pending_commands_by_uav[u]
      ]_vars

\* a preempted flow has just left its scope and the slot of the command
\* that replaced it is still the map entry of the vehicle
C11_Witness ==
    /\ returned.kind = "value"
    /\ returned.value = ExecutionCancelled
    /\ \E b \in Commands :
        /\ b # returned.cmd
        /\ pc[b] = "waiting"
        /\ pending_commands_by_uav[target[b]] = b

\* C12: a response completely reassembled from a source that is not in the
\* reverse index is logged and dropped: nothing is raised, and the command
\* map, every future and every command flow stay as they were.
C12_UnknownSourceDropped ==
    [][\A s \in Sources, chunk \in Chunks, compressed \in BOOLEAN :
            (/\ uavs_by_source_address[s] = NoUav
             /\ Reassembled(s, chunk, compressed)) =>
                /\ AssembledOutcome(s) = "no_uav"
                /\ pending_commands_by_uav' = pending_commands_by_uav
                /\ future' = future
                /\ pc' = pc
                /\ returned' = NoReturn
                /\ buffers'[s] = <<>>
      ]_vars

\* a response is being reassembled from a source that is not in the reverse
\* index while a command is pending
C12_Witness ==
    \E s \in Sources, u \in UavIds :
        /\ uavs_by_source_address[s] = NoUav
        /\ buffers[s] # <<>>
        /\ HasPendingCommand(u)

\* C13: no error raised by a packet handler leaves handle_inbound_packet.
C13_NoErrorEscapesDispatcher ==
    ~(returned.cmd = NoCommand /\ returned.kind = "error")

\* C14: dispatching a packet of a class without an entry in the handler
\* table raises nothing and leaves the numeric id cache, the registry, the
\* address maps, the reverse index, the command map, the futures, the
\* command flows and the reassembly buffers unchanged.
C14_UnknownPacketIsNoOp ==
    [][\A packet_class \in OtherPacketClasses :
            (PacketHandlers(packet_class) = None
             /\ HandleInboundOtherPacket(packet_class)) =>
                /\ returned' = NoReturn
                /\ UNCHANGED <<driverVars, pending_commands_by_uav, future, pc,
                               target, dest, buffers>>
      ]_vars

\* the driver holds an address, a pending command and a partial buffer, and
\* the last call ended without an error
C14_Witness ==
    /\ returned = NoReturn
    /\ \E u \in UavIds : HasPendingCommand(u)
    /\ \E s \in Sources : uavs_by_source_address[s] # NoUav /\ buffers[s] # <<>>

\* C16: a response chunk from one source leaves the buffer of every other
\* source as it was; a chunk that does not complete the body is appended to
\* the buffer of its source and delivers nothing; a completing chunk empties
\* the buffer of its source and what is delivered to the pending command
\* of the source's vehicle is the decoded body of the chunks of that source
\* in their order of arrival (decompressed for the compressed class). A
\* step that changes neither a buffer nor a future has nothing to check.
C16_BuffersIsolatedPerSource ==
    [][\A s \in Sources, chunk \in Chunks, final \in BOOLEAN, compressed \in BOOLEAN :
            (/\ buffers' # buffers \/ future' # future
             /\ IsResponseChunk(buffers[s], chunk, final, compressed)
             /\ HandleInboundCommandResponsePacket(s, chunk, final, compressed)) =>
                /\ \A t \in Sources \ {s} : buffers'[t] = buffers[t]
                /\ ~final => (buffers'[s] = buffers[s] \o chunk /\ future' = future)
                /\ final => buffers'[s] = <<>>
                /\ (final /\ AssembledOutcome(s) = "delivered") =>
                    future' = [future EXCEPT
                                  ![pending_commands_by_uav[uavs_by_source_address[s]]] =
                                      DoneFuture(ResponseText(s, chunk, compressed))]
      ]_vars

\* the response of one source has been delivered to the command sent to it
\* while a response of another source is partly received
C16_Witness ==
    \E s \in Sources, t \in Sources, c \in Commands :
        /\ s # t
        /\ buffers[s] = <<>>
        /\ buffers[t] # <<>>
        /\ dest[c] = s
        /\ future[c].state = "done"

\* C17: a command for a vehicle without a recorded address ends at once
\* with NoKnownAddress: no packet is handed to an address, no slot is
\* created, and the command map and every future stay as they were.
C17_NoKnownAddressFailsFirst ==
    [][\A c \in Commands, u \in UavIds, suspends \in BOOLEAN :
            (/\ pc[c] = "idle"
             /\ \A m \in Media : addresses[u][m] = None
             /\ SendCommandToUav(c, u, suspends)) =>
                /\ returned' = Raised(c, "NoKnownAddress")
                /\ pc'[c] = "done"
                /\ dest' = dest
                /\ pending_commands_by_uav' = pending_commands_by_uav
                /\ future' = future
      ]_vars

\* a command has just failed with NoKnownAddress while a command is pending
\* for another vehicle
C17_Witness ==
    /\ returned.error = "NoKnownAddress"
    /\ \E u \in UavIds : HasPendingCommand(u)

\* C18: the reverse index changes in a step exactly when the step stores a
\* new address in the forward address map of some vehicle; a repeated
\* address and a rejected status packet leave the reverse index unchanged.
C18_ReverseIndexChangesWithForwardMap ==
    [][(uavs_by_source_address' # uavs_by_source_address) <=> (addresses' # addresses)]_vars

\* C20: an algorithm data packet naming an unrecognized algorithm raises no
\* error and leaves the vehicle registry, the numeric-id cache, the address
\* maps, the reverse index and the pending-command map unchanged.
C20_UnrecognizedAlgorithmIsNoOp ==
    [][\A n \in UavIndices :
            HandleInboundAlgorithmDataPacket(n) =>
                /\ returned'.kind # "error"
                /\ uav_registry' = uav_registry
                /\ index_to_uav_id' = index_to_uav_id
                /\ addresses' = addresses
                /\ uavs_by_source_address' = uavs_by_source_address
                /\ pending_commands_by_uav' = pending_commands_by_uav
      ]_vars

\* C15: once the numeric-id cache holds an entry for a numeric id, no step
\* changes it, whether id_format is reassigned or the vehicle is removed
\* from the registry; every packet carrying that numeric id is resolved to
\* the cached display id, and the vehicle of that id is in the registry
\* after the packet.
C15_DisplayIdStable ==
    [][\A n \in UavIndices :
            index_to_uav_id[n] # NoUav =>
                /\ index_to_uav_id'[n] = index_to_uav_id[n]
                /\ (\/ HandleInboundAlgorithmDataPacket(n)
                    \/ \E s \in Sources : HandleInboundStatusPacket(n, s)) =>
                        /\ GetOrCreateUavId(n) = index_to_uav_id[n]
                        /\ index_to_uav_id[n] \in uav_registry'
      ]_vars

\* the vehicle of numeric id 1 is registered under a display id that the
\* current id_format would not produce, and the vehicle of numeric id 2 has a
\* cached display id but is no longer in the registry
C15_Witness ==
    /\ index_to_uav_id[1] # NoUav
    /\ index_to_uav_id[1] # FormatUavId(id_format, 1)
    /\ index_to_uav_id[1] \in uav_registry
    /\ index_to_uav_id[2] # NoUav
    /\ index_to_uav_id[2] \notin uav_registry

\* C19: on a Geiger counter sample the rate channel of a tube is written
\* if and only if a previous sample is stored, the elapsed time since it is
\* positive and the new raw count is not less than the previous raw count;
\* the value written is the difference of the counts divided by the elapsed
\* seconds, and otherwise the rate channel is left unwritten.
C19_RateWrittenIffMonotonic ==
    [][\A n \in UavIndices, itow \in Itows, raw_counts \in RawCounts :
            HandleInboundGeigerDataPacket(n, itow, raw_counts) =>
                LET last == last_geiger_counter_packet[GetOrCreateUavId(n)]
                IN  \A tube \in Tubes :
                        IF /\ last # NoSample
                           /\ itow - last[1] > 0
                           /\ raw_counts[tube] >= last[2][tube]
                            THEN mutations'.rates[tube] =
                                    Rate(raw_counts[tube] - last[2][tube], itow - last[1])
                            ELSE mutations'.rates[tube] = NoValue
      ]_vars

\* the number of times a signal is among the signals a call sent
TimesSent(signal, sent) == Len(SelectSeq(sent, LAMBDA x : x = signal))

\* C21: ChannelTypeRegistry.add called with a channel id that is already
\* registered throws an error and leaves the descriptor registered under
\* that id unchanged.
C21_AddOfTakenIdThrows ==
    [][\A channel_id \in ChannelIds, factory \in Factories, broadcaster \in Broadcasters :
            (Contains(channel_id) /\ Add(channel_id, factory, broadcaster)) =>
                /\ returned'.kind = "error"
                /\ entries'[channel_id] = entries[channel_id]
      ]_vars

\* C22: an add or remove call sends count_changed once when it changes
\* num_entries and not at all when it does not: once for an add of a new
\* id, once for a remove of a registered id, and a remove of an id that is
\* not registered changes no entry and sends no signal.
C22_CountChangedIffCountChanges ==
    [][\A channel_id \in ChannelIds :
            (\/ Remove(channel_id)
             \/ \E factory \in Factories, broadcaster \in Broadcasters :
                    Add(channel_id, factory, broadcaster)) =>
                /\ TimesSent("count_changed", signals') =
                        (IF num_entries' # num_entries THEN 1 ELSE 0)
                /\ (~Contains(channel_id) /\ Remove(channel_id)) =>
                        (entries' = entries /\ signals' = <<>>)
                /\ (Contains(channel_id) /\ Remove(channel_id)) =>
                        (TimesSent("count_changed", signals') = 1 /\ num_entries' = num_entries - 1)
                /\ (~Contains(channel_id) /\ ~Remove(channel_id)) =>
                        (TimesSent("count_changed", signals') = 1 /\ num_entries' = num_entries + 1)
      ]_vars

\* a registered channel type has just been removed while another one is
\* still registered
C22_Witness ==
    /\ signals = <<"count_changed", "removed">>
    /\ num_entries = 1

\* C23: registered(type, cls) is a round trip on the object type registry:
\* in every open scope resolve_type(type) is cls; when a scope ends,
\* normally or by an exception of its body, the registry is the one the
\* scope was entered with; entering with a type that is registered raises
\* ValueError, opens no scope and leaves the registration as it is.
C23_RegisteredIsRoundTrip ==
    [][/\ \A i \in 1..Len(scopes') : type_registry'[scopes'[i].type] = scopes'[i].cls
       /\ \A type \in Types, cls \in Classes :
            (resolve_type(type) # None /\ EnterRegistered(type, cls)) =>
                /\ returned' = Raised(NoCommand, "ValueError")
                /\ type_registry' = type_registry
                /\ scopes' = scopes
       /\ \A by_exception \in BOOLEAN :
            (scopes # <<>> /\ ExitRegistered(by_exception)) =>
                /\ type_registry' = scopes[Len(scopes)].before
                /\ returned' = IF by_exception THEN Raised(NoCommand, "BodyError") ELSE NoReturn
      ]_vars

\* the body of a scope has just ended by an exception, no scope is open
\* and a type registered before the scope is still registered
C23_Witness ==
    /\ scopes = <<>>
    /\ returned.error = "BodyError"
    /\ \E type \in Types : resolve_type(type) # None

\* C25: the slot of a new command is created only after the outbound send
\* has completed. The step that suspends in the send and the step in which
\* the send fails leave the command map and every future unchanged, a
\* command becomes the pending command of a vehicle only in the step in
\* which its send has completed, and while the send is suspended a command
\* pending for the vehicle is still the one a response from the vehicle
\* resolves.
C25_SlotCreatedAfterSend ==
    [][\A c \in Commands :
            /\ (pc[c] = "idle" /\ pc'[c] = "sending") =>
                    (pending_commands_by_uav' = pending_commands_by_uav /\ future' = future)
            /\ (pc[c] = "sending" /\ SendPacketFailed(c)) =>
                    (pending_commands_by_uav' = pending_commands_by_uav /\ future' = future)
            /\ \A u \in UavIds :
                    (pending_commands_by_uav'[u] = c /\ pending_commands_by_uav[u] # c) =>
                        AcquiresSlot(c, u)
            /\ pc'[c] = "sending" => ~HasPendingCommandOf(c)'
            /\ \A s \in Sources, chunk \in Chunks, compressed \in BOOLEAN :
                    (/\ pc[c] = "sending"
                     /\ future' # future
                     /\ uavs_by_source_address[s] = target[c]
                     /\ HasPendingCommand(target[c])
                     /\ Reassembled(s, chunk, compressed)) =>
                        future'[pending_commands_by_uav[target[c]]] =
                            DoneFuture(ResponseText(s, chunk, compressed))
      ]_vars

\* lenient mode: a command is suspended in its send while the command that
\* was pending for the same vehicle has been fulfilled by a response
C25_Witness ==
    \E c \in Commands, d \in Commands :
        /\ allow_multiple_commands_per_uav
        /\ c # d
        /\ pc[c] = "sending"
        /\ pending_commands_by_uav[target[c]] = d
        /\ future[d].state = "done"

\* C26: a Geiger update of a vehicle with a known position replaces the
\* stored sample of the vehicle by the timestamp and the raw counts of the
\* update, whatever the elapsed time and the counts are; an update of a
\* vehicle without a known position writes no channel and leaves the stored
\* sample as it is. The stored samples of the other vehicles are unchanged.
\* (A Geiger update hands the raw counts of its sample to the mutator or
\* hands over nothing, raises nothing, and changes neither a position nor
\* an address.)
C26_SampleReplacedWhenPositionKnown ==
    [][\A n \in UavIndices, itow \in Itows, raw_counts \in RawCounts :
            (/\ mutations'.raw_counts \in {NoValue, raw_counts}
             /\ position' = position
             /\ addresses' = addresses
             /\ returned' = NoReturn
             /\ HandleInboundGeigerDataPacket(n, itow, raw_counts)) =>
                LET uav == GetOrCreateUavId(n)
                IN  /\ position[uav] # None =>
                            last_geiger_counter_packet'[uav] = <<itow, raw_counts>>
                    /\ position[uav] = None =>
                            /\ last_geiger_counter_packet'[uav] = last_geiger_counter_packet[uav]
                            /\ mutations' = NoMutations
                    /\ \A other \in UavIds \ {uav} :
                            last_geiger_counter_packet'[other] = last_geiger_counter_packet[other]
      ]_vars

\* one vehicle has a stored sample with the earliest timestamp and the
\* highest counts, and the last update was one of a registered vehicle
\* without a known position, which wrote nothing
C26_Witness ==
    \E uav \in UavIds, other \in UavIds :
        /\ position[uav] # None
        /\ last_geiger_counter_packet[uav] = <<0, [tube \in Tubes |-> MaxCount]>>
        /\ other \in uav_registry
        /\ position[other] = None
        /\ last_geiger_counter_packet[other] = NoSample
        /\ mutations = NoMutations

\* C24: a status packet rejected with AddressConflict leaves the status of
\* every vehicle (the position, and with it velocity, heading, algorithm
\* and error) unchanged and requests no UAV-INF message.
C24_RejectedStatusLeavesTelemetry ==
    [][\A n \in UavIndices, s \in Sources, location \in Locations :
            (/\ returned'.error = "AddressConflict"
             /\ StatusOutcome(n, s) = "AddressConflict"
             /\ HandleInboundStatusPacketAt(n, s, location)) =>
                /\ position' = position
                /\ uav_inf_due' = uav_inf_due
                /\ last_geiger_counter_packet' = last_geiger_counter_packet
      ]_vars

\* a status packet has just been rejected while no UAV-INF message is due
\* and the two vehicles are known at different locations
C24_Witness ==
    /\ returned.error = "AddressConflict"
    /\ uav_inf_due = {}
    /\ position[FormatId(1)] = "location"
    /\ position[FormatId(2)] = "elsewhere"

====
